---- MODULE Spec2Model ----
(***************************************************************************)
(* TableFunctionExecutionContext::execute and its two launchers            *)
(* (QueryEngine/TableFunctions/TableFunctionExecutionContext.cpp).         *)
(*                                                                         *)
(* One behaviour is a caller that runs execute on one device and then,     *)
(* once that invocation has thrown or returned, runs it again on the other *)
(* device with the same Execution Unit and the same compiled function.     *)
(* Every local of execute / launchCpuCode / launchGpuCode is a variable;   *)
(* the owners (literals_owner, device_allocator, gpu_allocator,            *)
(* query_buffers, chunks_owner) hold what is allocated and alive.          *)
(*                                                                         *)
(* The build modelled is the one with HAVE_CUDA defined.  Sizes are far     *)
(* below 2^64, so size_t arithmetic never wraps here.                      *)
(***************************************************************************)
EXTENDS Integers, Sequences, FiniteSets, TLC

\* ------------------------------------------------------------ bounds
MaxLen == 3        \* input expressions per Execution Unit
MaxRows == 2       \* element count of a fetched column fragment
MaxMult == 2       \* value of the row multiplier
Excess == 1        \* how far above the allocation the function may report

VARIABLES
  exe_unit,            \* [input_exprs, output_buffer_multiplier]
  device_type,         \* "CPU" | "GPU"
  fn,                  \* behaviour of the compiled function (fixed once observed)
  pc,                  \* position of the invocation
  idx,                 \* position of the range-for over input_exprs
  col_buf_ptrs,
  element_count,
  chunks_owner,
  literals_owner,
  device_allocator,    \* execute's CudaAllocator
  gpu_allocator,       \* launchGpuCode's CudaAllocator
  alloc_rows,          \* allocated_output_row_count
  query_buffers,       \* the QueryMemoryInitializer and its result storage
  output_row_count,    \* the out-parameter (CPU) / the device slot (GPU)
  err,                 \* return code of the CPU call
  copied_rows,         \* row count handed to copyGroupByBuffersFromGpu
  error,               \* name of the failure raised, "none" otherwise
  launched,            \* the compiled function / kernel has been started
  result,              \* the ResultSet handed to the caller
  prev                 \* outcome of the earlier invocation of the pair

vars == <<exe_unit, device_type, fn, pc, idx, col_buf_ptrs, element_count,
          chunks_owner, literals_owner, device_allocator, gpu_allocator,
          alloc_rows, query_buffers, output_row_count, err, copied_rows,
          error, launched, result, prev>>

\* ------------------------------------------------------------ inputs
Devices == {"CPU", "GPU"}

OtherDevice(d) == IF d = "CPU" THEN "GPU" ELSE "CPU"

\* type infos of the Analyzer::Constant inputs tried: a floating-point and an
\* integer one the code packs, and a text one it does not
ConstTypes ==
  {[is_fp |-> TRUE, is_integer |-> FALSE, bits |-> 64],
   [is_fp |-> FALSE, is_integer |-> TRUE, bits |-> 32],
   [is_fp |-> FALSE, is_integer |-> FALSE, bits |-> 0]}

\* an input expression: a ColumnVar (with the element count its first
\* fragment holds), a Constant, or any other Analyzer::Expr
InputExprs ==
  {[kind |-> "ColumnVar", rows |-> n, ti |-> [is_fp |-> FALSE, is_integer |-> FALSE, bits |-> 0]] : n \in 0..MaxRows}
  \cup {[kind |-> "Constant", rows |-> 0, ti |-> t] : t \in ConstTypes}
  \cup {[kind |-> "Other", rows |-> 0, ti |-> [is_fp |-> FALSE, is_integer |-> FALSE, bits |-> 0]]}

SeqsUpTo(S, n) == UNION {[1..k -> S] : k \in 0..n}

\* std::optional<size_t> output_buffer_multiplier
Multipliers ==
  {[present |-> FALSE, value |-> 0]} \cup {[present |-> TRUE, value |-> v] : v \in 0..MaxMult}

\* ------------------------------------------------------------ values
NullAllocator == [alive |-> FALSE, owned |-> {}]

NullBuffers == [alive |-> FALSE, entry_count |-> 0, host |-> <<>>, device |-> <<>>]

NullResult == [present |-> FALSE, entry_count |-> 0, host |-> <<>>]

NoPrev == [done |-> FALSE, device |-> "CPU", pc |-> "start", error |-> "none",
           alloc_rows |-> 0, result |-> NullResult]

UnknownFn == [known |-> FALSE, err |-> 0, written |-> FALSE, out |-> 0, fill |-> FALSE]

Min(a, b) == IF a <= b THEN a ELSE b

\* ------------------------------------------------------------ helpers
\* sizeof(T) of the datum the dispatch at lines 109-158 hands to
\* create_literal_buffer; 0 when no case packs the constant
LiteralBytes(ti) ==
  IF ti.is_fp
    THEN (CASE ti.bits = 32 -> 4 [] ti.bits = 64 -> 8 [] OTHER -> 0)
    ELSE IF ti.is_integer
      THEN (CASE ti.bits = 8 -> 1 [] ti.bits = 16 -> 2 [] ti.bits = 32 -> 4
              [] ti.bits = 64 -> 8 [] OTHER -> 0)
      ELSE 0

\* the constant is one the dispatch packs (is_fp or is_integer)
SupportedLiteral(ti) == ti.is_fp \/ ti.is_integer

\* create_literal_buffer, CPU case: an 8-byte slot owned by literals_owner,
\* of which sizeof(T) bytes are written
HostLiteralSlot(i, ti) == [expr |-> i, size |-> 8, written |-> LiteralBytes(ti)]

\* create_literal_buffer, GPU case: an 8-byte buffer owned by the allocator
DeviceLiteralBuf(i) == [name |-> "literal", expr |-> i]

DeviceBuf(n) == [name |-> n, expr |-> 0]

\* the pointer pushed for input expression i
ColPtr(i) == [kind |-> "column", expr |-> i]

LitPtr(i) == [kind |-> "literal", expr |-> i]

\* what *exe_unit.output_buffer_multiplier reads: the value when present;
\* reading an empty optional is undefined, any value may come back
DerefMultiplier(m) == IF m.present THEN {m.value} ELSE 0..MaxMult

\* mutant: the multiplier is tested but not applied
get_output_row_count_unscaled(d, input_element_count) ==
  IF d # 0
    THEN [ok |-> TRUE, rows |-> input_element_count]
    ELSE [ok |-> FALSE, rows |-> 0]

\* get_output_row_count, given the value d the dereference read
get_output_row_count(d, input_element_count) ==
  IF d # 0
    THEN [ok |-> TRUE, rows |-> d * input_element_count]
    ELSE [ok |-> FALSE, rows |-> 0]

\* mutant: the element counts of later columns are not compared
SameCardinality_unchecked(buf_elem_count, count) == TRUE

\* CHECK_EQ(static_cast<ssize_t>(buf_elem_count), element_count)
SameCardinality(buf_elem_count, count) == buf_elem_count = count

\* mutant: the buffer count is not compared with the expression count
BufferCountOk_unchecked(ptrs, exprs) == TRUE

\* CHECK_EQ(col_buf_ptrs.size(), exe_unit.input_exprs.size())
BufferCountOk(ptrs, exprs) == Len(ptrs) = Len(exprs)

\* CHECK_GE(element_count, ssize_t(0))
ElementCountOk(count) == count >= 0

\* launchCpuCode: int64_t output_row_count = -1
CpuSentinel == -1

\* launchGpuCode: int64_t output_row_count = -1, copied to the device slot
GpuSentinel == -1

\* output storage of n rows as QueryMemoryInitializer leaves it
ZeroRows(n) == [j \in 1..n |-> 0]

\* the rows the compiled function writes when it fills the output
FilledRows(n) == [j \in 1..n |-> j]

\* mutant: the value read back is used as it is, without the fallback
ResolveGpuRowCount_nofallback(read_back, allocated) == read_back

\* if (new_output_row_count < 0) new_output_row_count = allocated_output_row_count
ResolveGpuRowCount(read_back, allocated) ==
  IF read_back < 0 THEN allocated ELSE read_back

\* mutant: nothing is copied back from the device
CopyFromGpu_nocopy(host, device, n) == host

\* copyGroupByBuffersFromGpu: the first n rows of the device buffers
CopyFromGpu(host, device, n) ==
  [j \in 1..Len(host) |-> IF j <= n /\ j <= Len(device) THEN device[j] ELSE host[j]]

\* what the compiled function may do when first observed
FnBehaviours(allocated) ==
  {[known |-> TRUE, err |-> e, written |-> w, out |-> o, fill |-> f] :
     e \in {0, 1}, w \in BOOLEAN, o \in 0..(allocated + Excess), f \in BOOLEAN}

\* the behaviours open at a call: the one already observed, else any
FnChoices(allocated) ==
  IF fn.known THEN {fn}
  ELSE {b \in FnBehaviours(allocated) : ~b.written => b.out = 0}

\* ------------------------------------------------------------ Init
Init ==
  /\ exe_unit \in [input_exprs : SeqsUpTo(InputExprs, MaxLen),
                   output_buffer_multiplier : Multipliers]
  /\ device_type \in Devices
  /\ fn = UnknownFn
  /\ pc = "start"
  /\ idx = 1
  /\ col_buf_ptrs = <<>>
  /\ element_count = -1
  /\ chunks_owner = <<>>
  /\ literals_owner = <<>>
  /\ device_allocator = NullAllocator
  /\ gpu_allocator = NullAllocator
  /\ alloc_rows = 0
  /\ query_buffers = NullBuffers
  /\ output_row_count = 0
  /\ err = 0
  /\ copied_rows = 0
  /\ error = "none"
  /\ launched = FALSE
  /\ result = NullResult
  /\ prev = NoPrev

\* ------------------------------------------------------------ execute
\* lines 75-86: the owners are constructed; the GPU path gets an allocator
ExecuteEntry ==
  /\ pc = "start"
  /\ device_allocator' =
       IF device_type = "GPU" THEN [alive |-> TRUE, owned |-> {}] ELSE NullAllocator
  /\ col_buf_ptrs' = <<>>
  /\ element_count' = -1
  /\ idx' = 1
  /\ pc' = "marshal"
  /\ UNCHANGED <<exe_unit, device_type, fn, chunks_owner, literals_owner,
                 gpu_allocator, alloc_rows, query_buffers, output_row_count,
                 err, copied_rows, error, launched, result, prev>>

\* lines 88-103: one iteration of the loop on a ColumnVar
MarshalColumnVar ==
  /\ pc = "marshal"
  /\ idx <= Len(exe_unit.input_exprs)
  /\ exe_unit.input_exprs[idx].kind = "ColumnVar"
  /\ LET buf_elem_count == exe_unit.input_exprs[idx].rows IN
       /\ chunks_owner' = Append(chunks_owner, idx)
       /\ IF element_count < 0
            THEN /\ element_count' = buf_elem_count
                 /\ col_buf_ptrs' = Append(col_buf_ptrs, ColPtr(idx))
                 /\ idx' = idx + 1
                 /\ UNCHANGED <<pc, error>>
            ELSE IF SameCardinality(buf_elem_count, element_count)
              THEN /\ col_buf_ptrs' = Append(col_buf_ptrs, ColPtr(idx))
                   /\ idx' = idx + 1
                   /\ UNCHANGED <<element_count, pc, error>>
              ELSE /\ pc' = "aborted"
                   /\ error' = "InconsistentInputCardinality"
                   /\ UNCHANGED <<element_count, col_buf_ptrs, idx>>
  /\ UNCHANGED <<exe_unit, device_type, fn, literals_owner, device_allocator,
                 gpu_allocator, alloc_rows, query_buffers, output_row_count,
                 err, copied_rows, launched, result, prev>>

\* lines 104-158: one iteration of the loop on a Constant
MarshalConstant ==
  /\ pc = "marshal"
  /\ idx <= Len(exe_unit.input_exprs)
  /\ exe_unit.input_exprs[idx].kind = "Constant"
  /\ LET ti == exe_unit.input_exprs[idx].ti IN
       IF SupportedLiteral(ti)
         THEN /\ col_buf_ptrs' = Append(col_buf_ptrs, LitPtr(idx))
              /\ IF device_type = "CPU"
                   THEN /\ literals_owner' = Append(literals_owner, HostLiteralSlot(idx, ti))
                        /\ UNCHANGED device_allocator
                   ELSE /\ device_allocator' =
                             [device_allocator EXCEPT !.owned = @ \cup {DeviceLiteralBuf(idx)}]
                        /\ UNCHANGED literals_owner
              /\ idx' = idx + 1
              /\ UNCHANGED <<pc, error>>
         ELSE /\ pc' = "raise"
              /\ error' = "UnsupportedLiteralType"
              /\ UNCHANGED <<col_buf_ptrs, literals_owner, device_allocator, idx>>
  /\ UNCHANGED <<exe_unit, device_type, fn, element_count, chunks_owner,
                 gpu_allocator, alloc_rows, query_buffers, output_row_count,
                 err, copied_rows, launched, result, prev>>

\* lines 88, 104, 159: an expression that is neither a ColumnVar nor a
\* Constant matches no branch; nothing is pushed
MarshalOther ==
  /\ pc = "marshal"
  /\ idx <= Len(exe_unit.input_exprs)
  /\ exe_unit.input_exprs[idx].kind = "Other"
  /\ idx' = idx + 1
  /\ UNCHANGED <<exe_unit, device_type, fn, pc, col_buf_ptrs, element_count,
                 chunks_owner, literals_owner, device_allocator, gpu_allocator,
                 alloc_rows, query_buffers, output_row_count, err, copied_rows,
                 error, launched, result, prev>>

\* lines 161-178: the two CHECKs after the loop, then the dispatch
CheckMarshaled ==
  /\ pc = "marshal"
  /\ idx > Len(exe_unit.input_exprs)
  /\ IF ~BufferCountOk(col_buf_ptrs, exe_unit.input_exprs)
       THEN pc' = "aborted" /\ error' = "BufferCountMismatch"
       ELSE IF ~ElementCountOk(element_count)
         THEN pc' = "aborted" /\ error' = "NoColumnInputs"
         ELSE /\ pc' = IF device_type = "CPU" THEN "launchCpuCode" ELSE "launchGpuCode"
              /\ UNCHANGED error
  /\ UNCHANGED <<exe_unit, device_type, fn, idx, col_buf_ptrs, element_count,
                 chunks_owner, literals_owner, device_allocator, gpu_allocator,
                 alloc_rows, query_buffers, output_row_count, err, copied_rows,
                 launched, result, prev>>

\* ------------------------------------------------------------ launchCpuCode
\* lines 189-219: the layout, get_output_row_count (which may throw), the
\* output storage, the out-parameter set to its sentinel
CpuPlan ==
  /\ pc = "launchCpuCode"
  /\ \E d \in DerefMultiplier(exe_unit.output_buffer_multiplier) :
       LET r == get_output_row_count(d, element_count) IN
         IF r.ok
           THEN /\ alloc_rows' = r.rows
                /\ query_buffers' = [alive |-> TRUE, entry_count |-> element_count,
                                     host |-> ZeroRows(r.rows), device |-> <<>>]
                /\ output_row_count' = CpuSentinel
                /\ pc' = "cpuCall"
                /\ UNCHANGED error
           ELSE /\ pc' = "raise"
                /\ error' = "UnsupportedOutputPolicy"
                /\ UNCHANGED <<alloc_rows, query_buffers, output_row_count>>
  /\ UNCHANGED <<exe_unit, device_type, fn, idx, col_buf_ptrs, element_count,
                 chunks_owner, literals_owner, device_allocator, gpu_allocator,
                 err, copied_rows, launched, result, prev>>

\* lines 221-227: the compiled function runs on the host pointers
CpuCall ==
  /\ pc = "cpuCall"
  /\ \E b \in FnChoices(alloc_rows) :
       /\ fn' = b
       /\ err' = b.err
       /\ output_row_count' = IF b.written THEN b.out ELSE output_row_count
       /\ query_buffers' =
            IF b.fill
              THEN [query_buffers EXCEPT !.host = FilledRows(alloc_rows)]
              ELSE query_buffers
  /\ launched' = TRUE
  /\ pc' = "cpuCheck"
  /\ UNCHANGED <<exe_unit, device_type, idx, col_buf_ptrs, element_count,
                 chunks_owner, literals_owner, device_allocator, gpu_allocator,
                 alloc_rows, copied_rows, error, result, prev>>

\* mutant: the out-parameter is not tested
OutputRowCountNotSet_never(count) == FALSE

\* if (output_row_count < 0)
OutputRowCountNotSet(count) == count < 0

\* mutant: the entry count is left at the allocated row count
CpuEntryCount_allocated(reported, allocated) == allocated

\* the row count launchCpuCode stores in the result
CpuEntryCount(reported, allocated) == reported

\* lines 228-238: the return code, the out-parameter, the entry count
CpuFinish ==
  /\ pc = "cpuCheck"
  /\ IF err # 0
       THEN /\ pc' = "raise"
            /\ error' = "TableFunctionExecutionError"
            /\ UNCHANGED <<query_buffers, result>>
       ELSE IF OutputRowCountNotSet(output_row_count)
         THEN /\ pc' = "raise"
              /\ error' = "OutputCardinalityNotSet"
              /\ UNCHANGED <<query_buffers, result>>
         ELSE /\ query_buffers' =
                   [query_buffers EXCEPT !.entry_count = CpuEntryCount(output_row_count, alloc_rows)]
              /\ result' = [present |-> TRUE,
                            entry_count |-> query_buffers'.entry_count,
                            host |-> query_buffers'.host]
              /\ pc' = "return"
              /\ UNCHANGED error
  /\ UNCHANGED <<exe_unit, device_type, fn, idx, col_buf_ptrs, element_count,
                 chunks_owner, literals_owner, device_allocator, gpu_allocator,
                 alloc_rows, output_row_count, err, copied_rows, launched, prev>>

\* ------------------------------------------------------------ launchGpuCode
\* lines 260-279: the allocator, and the device copies of the pointer
\* array, of the input row count, and the error slot
GpuSetupInputs ==
  /\ pc = "launchGpuCode"
  /\ gpu_allocator' =
       [alive |-> TRUE,
        owned |-> {DeviceBuf("byte_stream"), DeviceBuf("input_row_count"),
                   DeviceBuf("error_buffer")}]
  /\ pc' = "gpuPlan"
  /\ UNCHANGED <<exe_unit, device_type, fn, idx, col_buf_ptrs, element_count,
                 chunks_owner, literals_owner, device_allocator, alloc_rows,
                 query_buffers, output_row_count, err, copied_rows, error,
                 launched, result, prev>>

\* lines 281-323: the layout, get_output_row_count (which may throw), the
\* output storage, the device slot set to its sentinel, the device buffers
GpuPlan ==
  /\ pc = "gpuPlan"
  /\ \E d \in DerefMultiplier(exe_unit.output_buffer_multiplier) :
       LET r == get_output_row_count(d, element_count) IN
         IF r.ok
           THEN /\ alloc_rows' = r.rows
                /\ query_buffers' = [alive |-> TRUE, entry_count |-> element_count,
                                     host |-> ZeroRows(r.rows),
                                     device |-> ZeroRows(r.rows)]
                /\ output_row_count' = GpuSentinel
                /\ gpu_allocator' =
                     [gpu_allocator EXCEPT
                        !.owned = @ \cup {DeviceBuf("output_row_count"),
                                          DeviceBuf("output_buffers")}]
                /\ pc' = "gpuLaunch"
                /\ UNCHANGED error
           ELSE /\ pc' = "raise"
                /\ error' = "UnsupportedOutputPolicy"
                /\ UNCHANGED <<alloc_rows, query_buffers, output_row_count,
                               gpu_allocator>>
  /\ UNCHANGED <<exe_unit, device_type, fn, idx, col_buf_ptrs, element_count,
                 chunks_owner, literals_owner, device_allocator, err,
                 copied_rows, launched, result, prev>>

\* lines 338-348: cuLaunchKernel succeeds and the kernel runs; what it
\* signals goes to the error buffer, which nothing reads
GpuLaunchKernel ==
  /\ pc = "gpuLaunch"
  /\ \E b \in FnChoices(alloc_rows) :
       /\ fn' = b
       /\ output_row_count' = IF b.written THEN b.out ELSE output_row_count
       /\ query_buffers' =
            IF b.fill
              THEN [query_buffers EXCEPT !.device = FilledRows(alloc_rows)]
              ELSE query_buffers
  /\ launched' = TRUE
  /\ pc' = "gpuReadBack"
  /\ UNCHANGED <<exe_unit, device_type, idx, col_buf_ptrs, element_count,
                 chunks_owner, literals_owner, device_allocator, gpu_allocator,
                 alloc_rows, err, copied_rows, error, result, prev>>

\* lines 338-348: cuLaunchKernel reports a driver error to checkCudaErrors
GpuLaunchError ==
  /\ pc = "gpuLaunch"
  /\ pc' = "raise"
  /\ error' = "KernelLaunchError"
  /\ UNCHANGED <<exe_unit, device_type, fn, idx, col_buf_ptrs, element_count,
                 chunks_owner, literals_owner, device_allocator, gpu_allocator,
                 alloc_rows, query_buffers, output_row_count, err, copied_rows,
                 launched, result, prev>>

\* lines 351-375: the slot is read back and resolved, the entry count is
\* stored, the output is copied back to the host storage
GpuFinish ==
  /\ pc = "gpuReadBack"
  /\ LET new_output_row_count == ResolveGpuRowCount(output_row_count, alloc_rows) IN
       /\ copied_rows' = new_output_row_count
       /\ query_buffers' =
            [query_buffers EXCEPT
               !.entry_count = new_output_row_count,
               !.host = CopyFromGpu(query_buffers.host, query_buffers.device,
                                    new_output_row_count)]
       /\ result' = [present |-> TRUE,
                     entry_count |-> query_buffers'.entry_count,
                     host |-> query_buffers'.host]
  /\ pc' = "return"
  /\ UNCHANGED <<exe_unit, device_type, fn, idx, col_buf_ptrs, element_count,
                 chunks_owner, literals_owner, device_allocator, gpu_allocator,
                 alloc_rows, output_row_count, err, error, launched, prev>>

\* ------------------------------------------------------------ scope exit
\* mutant: the owner's slots outlive the invocation
Released_leaked(owner) == owner

\* what an owner holds once its destructor has run
Released(owner) == <<>>

\* a CudaAllocator once its unique_ptr has been destroyed
ReleasedAllocator(a) == NullAllocator

\* a throw or a return leaves launchGpuCode / launchCpuCode and execute: the
\* unique_ptrs and vectors declared at lines 75-79, 204, 261, 291 are
\* destroyed; the ResultSet taken by getResultSetOwned stays with the caller
ScopeExit ==
  /\ pc \in {"raise", "return"}
  /\ literals_owner' = Released(literals_owner)
  /\ chunks_owner' = Released(chunks_owner)
  /\ device_allocator' = ReleasedAllocator(device_allocator)
  /\ gpu_allocator' = ReleasedAllocator(gpu_allocator)
  /\ query_buffers' = NullBuffers
  /\ pc' = IF pc = "raise" THEN "thrown" ELSE "returned"
  /\ UNCHANGED <<exe_unit, device_type, fn, idx, col_buf_ptrs, element_count,
                 alloc_rows, output_row_count, err, copied_rows, error,
                 launched, result, prev>>

\* ------------------------------------------------------------ the caller
\* the caller runs the same Execution Unit and compiled function on the
\* other device; nothing of the finished invocation is carried over
NextInvocation ==
  /\ pc \in {"thrown", "returned"}
  /\ ~prev.done
  /\ prev' = [done |-> TRUE, device |-> device_type, pc |-> pc, error |-> error,
              alloc_rows |-> alloc_rows, result |-> result]
  /\ device_type' = OtherDevice(device_type)
  /\ pc' = "start"
  /\ idx' = 1
  /\ col_buf_ptrs' = <<>>
  /\ element_count' = -1
  /\ alloc_rows' = 0
  /\ output_row_count' = 0
  /\ err' = 0
  /\ copied_rows' = 0
  /\ error' = "none"
  /\ launched' = FALSE
  /\ result' = NullResult
  /\ UNCHANGED <<exe_unit, fn, chunks_owner, literals_owner, device_allocator,
                 gpu_allocator, query_buffers>>

Next ==
  \/ ExecuteEntry
  \/ MarshalColumnVar
  \/ MarshalConstant
  \/ MarshalOther
  \/ CheckMarshaled
  \/ CpuPlan
  \/ CpuCall
  \/ CpuFinish
  \/ GpuSetupInputs
  \/ GpuPlan
  \/ GpuLaunchKernel
  \/ GpuLaunchError
  \/ GpuFinish
  \/ ScopeExit
  \/ NextInvocation

Spec == Init /\ [][Next]_vars

\* ------------------------------------------------------------ vocabulary
Exprs == exe_unit.input_exprs

IsColumn(i) == Exprs[i].kind = "ColumnVar"

IsBadConstant(i) == Exprs[i].kind = "Constant" /\ ~SupportedLiteral(Exprs[i].ti)

\* two column references whose fragments hold different element counts
MismatchedColumns ==
  \E i, j \in 1..Len(Exprs) :
    i < j /\ IsColumn(i) /\ IsColumn(j) /\ Exprs[i].rows # Exprs[j].rows

\* j is the first column reference that disagrees with the first column
FirstMismatchAt(j) ==
  /\ IsColumn(j)
  /\ \E i \in 1..(j - 1) :
       /\ IsColumn(i)
       /\ Exprs[i].rows # Exprs[j].rows
       /\ \A k \in 1..(i - 1) : ~IsColumn(k)
       /\ \A k \in (i + 1)..(j - 1) : IsColumn(k) => Exprs[k].rows = Exprs[i].rows

SingleColumnInput == Len(Exprs) = 1 /\ IsColumn(1)

NoAllocation ==
  /\ literals_owner = <<>>
  /\ device_allocator.owned = {}
  /\ gpu_allocator.owned = {}
  /\ ~query_buffers.alive

\* the invocation is inside launchCpuCode or launchGpuCode
InLauncher ==
  pc \in {"launchCpuCode", "cpuCall", "cpuCheck",
          "launchGpuCode", "gpuPlan", "gpuLaunch", "gpuReadBack"}

\* the planner has returned a row count to its launcher
PastPlanner == pc \in {"cpuCall", "cpuCheck", "gpuLaunch", "gpuReadBack", "return", "returned"}

\* control is back with the caller
Exited == pc \in {"thrown", "returned"}

\* the rows of a result that its entry count makes visible
VisibleRows(r) == SubSeq(r.host, 1, Min(r.entry_count, Len(r.host)))

\* ------------------------------------------------------------ claims

\* C1 (as stated): an invocation on an Execution Unit without a row
\* multiplier never gets past the planner, and when it raises
\* UnsupportedOutputPolicy nothing (host literal slot, device buffer, output
\* storage) has been allocated.
C1_NoMultiplierFailsBeforeAnyAllocation ==
  ~exe_unit.output_buffer_multiplier.present =>
    /\ ~PastPlanner
    /\ (pc = "raise" /\ error = "UnsupportedOutputPolicy") => NoAllocation

\* C2 (as stated): a single-column-input execution that returned a result has
\* allocated multiplier * input rows, and the result's row count is at most
\* the allocated row count, whatever the function reported.
C2_RowCountNeverExceedsAllocation ==
  (SingleColumnInput /\ result.present) =>
    /\ exe_unit.output_buffer_multiplier.present =>
         alloc_rows = exe_unit.output_buffer_multiplier.value * element_count
    /\ result.entry_count <= alloc_rows

\* C2 (amended): a single-column-input execution that returned a result has
\* allocated multiplier * input rows, and the result's row count is at most
\* the allocated row count provided the function reported at most the
\* allocated row count or (GPU) left the count unwritten.
C2_RowCountWithinAllocationWhenReportedWithin ==
  (SingleColumnInput /\ result.present) =>
    /\ exe_unit.output_buffer_multiplier.present =>
         alloc_rows = exe_unit.output_buffer_multiplier.value * element_count
    /\ (fn.written => fn.out <= alloc_rows) => result.entry_count <= alloc_rows

C2_Witness ==
  /\ SingleColumnInput
  /\ result.present
  /\ device_type = "GPU"
  /\ ~fn.written
  /\ exe_unit.output_buffer_multiplier.present
  /\ alloc_rows = 4
  /\ result.entry_count = 4

\* C3 (as stated): the planner fails with UnsupportedOutputPolicy only when
\* the multiplier is absent, and with a multiplier present it returns
\* exactly multiplier * input row count.
C3_PlannerSucceedsWheneverMultiplierPresent ==
  /\ error = "UnsupportedOutputPolicy" => ~exe_unit.output_buffer_multiplier.present
  /\ (PastPlanner /\ exe_unit.output_buffer_multiplier.present) =>
       alloc_rows = exe_unit.output_buffer_multiplier.value * element_count

\* C4: on the CPU path, once the function has returned 0 having written a
\* row count n >= 0, execute returns a result whose row count is n.
C4_CpuResultHasReportedRowCount ==
  (device_type = "CPU" /\ launched /\ pc # "cpuCheck" /\ fn.err = 0 /\ fn.written) =>
    /\ error = "none"
    /\ result.present
    /\ result.entry_count = fn.out

C4_Witness ==
  /\ device_type = "CPU"
  /\ pc = "returned"
  /\ element_count = 2
  /\ alloc_rows = 4
  /\ fn.written /\ fn.out = 2
  /\ result.present /\ result.entry_count = 2

\* C5: on the CPU path the out-parameter is negative when the function is
\* called, and once the function has returned 0 leaving it negative the
\* invocation fails with OutputCardinalityNotSet: no result is returned and
\* the storage's row count is left as it was.
C5_CpuUnsetRowCountFails ==
  /\ pc = "cpuCall" => output_row_count < 0
  /\ (device_type = "CPU" /\ launched /\ pc # "cpuCheck" /\ err = 0 /\ ~fn.written) =>
       /\ output_row_count < 0
       /\ error = "OutputCardinalityNotSet"
       /\ pc \in {"raise", "thrown"}
       /\ ~result.present
       /\ pc = "raise" => query_buffers.entry_count = element_count

C5_Witness ==
  /\ device_type = "CPU"
  /\ pc = "thrown"
  /\ launched /\ err = 0 /\ ~fn.written
  /\ error = "OutputCardinalityNotSet"

\* C6: on the GPU path, once the kernel has run leaving the device slot at
\* its negative sentinel, the invocation returns a result whose row count,
\* and the row count of the device-to-host copy, is the allocated row count.
C6_GpuUnsetRowCountFallsBack ==
  (device_type = "GPU" /\ launched /\ pc # "gpuReadBack" /\ ~fn.written) =>
    /\ output_row_count < 0
    /\ error = "none"
    /\ pc \in {"return", "returned"}
    /\ result.present
    /\ result.entry_count = alloc_rows
    /\ copied_rows = alloc_rows

C6_Witness ==
  /\ device_type = "GPU"
  /\ pc = "returned"
  /\ launched /\ ~fn.written
  /\ alloc_rows = 2
  /\ result.present /\ result.entry_count = 2

\* C7 (as stated): an invocation whose inputs hold two column references of
\* differing element counts never allocates output storage nor launches the
\* function, never reaches a launcher, and whenever it has failed the
\* failure is InconsistentInputCardinality.
C7_MismatchAlwaysInconsistentCardinality ==
  MismatchedColumns =>
    /\ ~query_buffers.alive
    /\ ~launched
    /\ ~InLauncher /\ ~PastPlanner
    /\ error \in {"none", "InconsistentInputCardinality"}

\* C7 (amended): such an invocation never allocates output storage nor
\* launches the function and never reaches a launcher; it fails at the first
\* disagreeing column with InconsistentInputCardinality, unless a constant
\* of an unsupported kind comes before that column, in which case it fails
\* there with UnsupportedLiteralType.
C7_MismatchFailsBeforeOutputAllocation ==
  MismatchedColumns =>
    /\ ~query_buffers.alive
    /\ ~launched
    /\ ~InLauncher /\ ~PastPlanner
    /\ \A j \in 1..Len(Exprs) : FirstMismatchAt(j) =>
         /\ idx <= j
         /\ error # "none" =>
              error = IF \E k \in 1..(j - 1) : IsBadConstant(k)
                        THEN "UnsupportedLiteralType"
                        ELSE "InconsistentInputCardinality"
         /\ (pc = "marshal" /\ idx = j) => \A k \in 1..(j - 1) : ~IsBadConstant(k)

C7_Witness ==
  /\ Len(Exprs) = 3
  /\ IsColumn(1) /\ Exprs[2].kind = "Constant" /\ IsColumn(3)
  /\ Exprs[1].rows # Exprs[3].rows
  /\ pc = "aborted"
  /\ error = "InconsistentInputCardinality"
  /\ Len(col_buf_ptrs) = 2

\* C8 (as stated): a CPU and a GPU execution of the same Execution Unit
\* (multiplier present) with a function that signals no error and behaves
\* the same on both, neither hitting a driver error, both return results
\* with identical row counts and identical rows.
C8_CpuAndGpuAgree ==
  (/\ prev.done
   /\ pc \in {"thrown", "returned", "aborted"}
   /\ exe_unit.output_buffer_multiplier.present
   /\ fn.known /\ fn.err = 0
   /\ error # "KernelLaunchError" /\ prev.error # "KernelLaunchError") =>
    /\ result.present = prev.result.present
    /\ result.entry_count = prev.result.entry_count
    /\ VisibleRows(result) = VisibleRows(prev.result)

\* C8 (amended): when the CPU and the GPU execution of the same Execution
\* Unit and function both return a result, and the reported row count is
\* within both allocations, the row counts are identical and so are the
\* rows they make visible.
C8_CpuAndGpuAgreeWhenBothReturn ==
  (/\ prev.done
   /\ result.present /\ prev.result.present
   /\ fn.out <= alloc_rows /\ fn.out <= prev.alloc_rows) =>
    /\ result.entry_count = prev.result.entry_count
    /\ VisibleRows(result) = VisibleRows(prev.result)

C8_Witness ==
  /\ prev.done
  /\ pc = "returned"
  /\ result.present /\ prev.result.present
  /\ fn.fill /\ fn.out = 3
  /\ alloc_rows = 4
  /\ VisibleRows(result) = <<1, 2, 3>>

C10_MarshaledSetCompleteAtLaunch ==
  /\ InLauncher =>
       /\ Len(col_buf_ptrs) = Len(Exprs)
       /\ \A i \in 1..Len(Exprs) :
            /\ col_buf_ptrs[i].expr = i
            /\ col_buf_ptrs[i].kind = IF IsColumn(i) THEN "column" ELSE "literal"
       /\ element_count >= 0
  /\ ((\A i \in 1..Len(Exprs) : ~IsColumn(i)) \/ (\E i \in 1..Len(Exprs) : Exprs[i].kind = "Other")) =>
       ~InLauncher /\ ~launched /\ ~PastPlanner

C10_Witness ==
  /\ pc = "launchGpuCode"
  /\ Len(Exprs) = 3
  /\ Exprs[1].kind = "Constant" /\ IsColumn(2) /\ Exprs[3].kind = "Constant"
  /\ Len(col_buf_ptrs) = 3

====
